---- MODULE Spec2Model ----
(***************************************************************************)
(* pj: parallel search for directories that contain a sentinel entry.      *)
(*                                                                         *)
(* The module models the three work queues of the repository               *)
(*   - MutexSyncStream            (src/sync_reader.rs, one lock)           *)
(*   - SwapSyncStream             (src/sync_reader.rs, read + write lock)  *)
(*   - SearchPool's candidate list (src/main.rs)                           *)
(* the condition variable they block on, and the two programs that drive   *)
(* them: the put-then-drain threads of run_sync_stream_test and the        *)
(* traversal workers (finder_worker of src/worker.rs over a SyncStream,    *)
(* worker of src/main.rs over a SearchPool, joined by find_sentinel_dirs). *)
(*                                                                         *)
(* A critical section (lock .. unlock, or lock .. Condvar::wait) is one    *)
(* step.  Option<T> is a sequence of length 0 (None) or 1 (Some).          *)
(***************************************************************************)
EXTENDS Naturals, Integers, Sequences, FiniteSets, Bags, TLC

\* Number of threads spawned; also the thread_count handed to with_threads
\* (run_sync_stream_test) and the value of num_cpus::get() (SearchPool).
NThreads == 2

\* The number of items of run_sync_stream_test (1000 in the source), scaled.
ItemCount == 6

VARIABLES
    impl,           \* which queue: "mutex", "swap" or "pool"
    waiting_count,  \* MutexSyncStreamState.waiting_count / candidates.0
    elements,       \* MutexSyncStreamState.elements / candidates.1
    write_state,    \* SwapSyncStream.write_state
    poisoned,       \* the Mutex of state / read_state is poisoned
    pc,             \* position of every thread
    ret,            \* the Option returned by the thread's last get
    todo,           \* run_sync_stream_test: the items min..max still to put
    got,            \* run_sync_stream_test: the thread's results vector
    cand,           \* worker: candidate_subpaths of the directory just scanned
    tree,           \* the file system searched (input)
    max_depth,      \* WorkTarget.max_depth (input)
    results,        \* SearchPool.results / the lines printed by finder_worker
    joined,         \* find_sentinel_dirs: how many children have been joined
    outcome,        \* find_sentinel_dirs: <<>> while running, then its Result
    inserted,       \* history: every item ever handed to put / extend / new
    delivered,      \* history: every item ever returned by a get
    nones,          \* history: the threads whose get returned None
    scanned         \* history: the bag of work items scanned

vars == <<impl, waiting_count, elements, write_state, poisoned, pc, ret, todo,
          got, cand,
          tree, max_depth, results, joined, outcome,
          inserted, delivered, nones, scanned>>

\* The threads spawned: thread::spawn is called for 0 .. n - 1.
Spawned(n) == 0 .. (n - 1)

\* The threads of the run, and the thread_count the stream was made with:
\* the number of threads spawned.
Threads == DOMAIN pc

thread_count == Cardinality(Threads)

None == <<>>
Some(x) == <<x>>

\* (a pop that returns the first element)
VecLast_first(v) == v[1]

\* Vec::pop takes the last element.
VecLast(v) == v[Len(v)]

\* (a pop that leaves the element in the vector)
VecPopped_peek(v) == SubSeq(v, 1, Len(v))

VecPopped(v) == SubSeq(v, 1, Len(v) - 1)

RECURSIVE SeqToBag(_)
SeqToBag(s) ==
    IF s = <<>> THEN EmptyBag ELSE SetToBag({Head(s)}) (+) SeqToBag(Tail(s))

(***************************************************************************)
(* Condvar (std::sync::Condvar).  A thread inside Condvar::wait is at      *)
(* "wait"; a notification moves it to "woken", from where it re-acquires   *)
(* the lock and runs the loop of get again.                                *)
(***************************************************************************)
Waiters(p) == {u \in Threads : p[u] = "wait"}

\* (a notify_all that wakes nobody)
notify_all_lost(p) == p

\* notify_all: every thread blocked on the condition variable is woken.
notify_all(p) == [u \in Threads |-> IF p[u] = "wait" THEN "woken" ELSE p[u]]

\* notify_one: one blocked thread, if there is any, is woken; the set of
\* possible outcomes.
notify_one(p) ==
    IF Waiters(p) = {} THEN {p}
    ELSE {[p EXCEPT ![u] = "woken"] : u \in Waiters(p)}

\* Condvar::wait may return without a notification.
SpuriousWake(t) ==
    /\ pc[t] = "wait"
    /\ pc' = [pc EXCEPT ![t] = "woken"]
    /\ UNCHANGED <<impl, poisoned, waiting_count, elements, write_state,
                   ret, todo, got,
                   cand, tree, max_depth, results, joined, outcome,
                   inserted, delivered, nones, scanned>>

(***************************************************************************)
(* MutexSyncStreamState                                                    *)
(***************************************************************************)
\* is_stalled panics when waiting_count > thread_count ...
is_stalled_panics(wc) == wc > thread_count

\* (a stall declared one waiter early)
is_stalled_early(wc) == wc + 1 >= thread_count

\* (a stall tested with > for >=)
is_stalled_late(wc) == wc > thread_count

\* ... and otherwise answers waiting_count >= thread_count.
is_stalled(wc) == wc >= thread_count

(***************************************************************************)
(* The ways a queue call of thread t ends.  p is pc after the call's       *)
(* notifications.                                                          *)
(***************************************************************************)
\* (a get that returns an item and keeps itself counted as waiting)
ReturnSome_nodec(t, p, wc, buf) ==
    /\ waiting_count' = wc
    /\ elements' = VecPopped(buf)
    /\ ret' = [ret EXCEPT ![t] = Some(VecLast(buf))]
    /\ delivered' = delivered (+) SetToBag({VecLast(buf)})
    /\ pc' = [p EXCEPT ![t] = "ret"]
    /\ UNCHANGED <<nones, poisoned>>

\* (a get that returns None and takes itself off the waiting count)
ReturnNone_dec(t, p, wc) ==
    /\ waiting_count' = wc - 1
    /\ ret' = [ret EXCEPT ![t] = None]
    /\ nones' = nones \cup {t}
    /\ pc' = [p EXCEPT ![t] = "ret"]
    /\ UNCHANGED <<elements, delivered, poisoned>>

\* get returns Some(last element of buf); rest is what the buffer keeps.
ReturnSome(t, p, wc, buf) ==
    /\ waiting_count' = wc - 1
    /\ elements' = VecPopped(buf)
    /\ ret' = [ret EXCEPT ![t] = Some(VecLast(buf))]
    /\ delivered' = delivered (+) SetToBag({VecLast(buf)})
    /\ pc' = [p EXCEPT ![t] = "ret"]
    /\ UNCHANGED <<nones, poisoned>>

\* get returns None: the waiting count is not decremented.
ReturnNone(t, p, wc) ==
    /\ waiting_count' = wc
    /\ ret' = [ret EXCEPT ![t] = None]
    /\ nones' = nones \cup {t}
    /\ pc' = [p EXCEPT ![t] = "ret"]
    /\ UNCHANGED <<elements, delivered, poisoned>>

\* get blocks in Condvar::wait, which releases the lock.
Block(t, wc) ==
    /\ waiting_count' = wc
    /\ pc' = [pc EXCEPT ![t] = "wait"]
    /\ UNCHANGED <<elements, ret, delivered, nones, poisoned>>

\* The thread panics while it holds the lock, and is gone: the lock is
\* poisoned.
Panic(t, wc) ==
    /\ waiting_count' = wc
    /\ pc' = [pc EXCEPT ![t] = "panicked"]
    /\ poisoned' = TRUE
    /\ UNCHANGED <<elements, ret, delivered, nones>>

\* lock().unwrap() or wait(..).unwrap() on a poisoned lock: the thread
\* panics before it touches the state.
PoisonError(t) ==
    /\ pc' = [pc EXCEPT ![t] = "panicked"]
    /\ UNCHANGED <<waiting_count, elements, ret, delivered, nones, poisoned>>

\* (a count incremented on every pass of the loop)
Entered_twice(t) == waiting_count + 1

\* waiting_count as the loop of get sees it: incremented on entry.
Entered(t) == IF pc[t] = "get" THEN waiting_count + 1 ELSE waiting_count

(***************************************************************************)
(* MutexSyncStream                                                         *)
(***************************************************************************)
MutexSyncStream_get(t) ==
    /\ pc[t] \in {"get", "woken"}
    /\ LET wc == Entered(t) IN
         IF poisoned THEN PoisonError(t)
         ELSE IF Len(elements) > 0 THEN ReturnSome(t, pc, wc, elements)
         ELSE IF is_stalled_panics(wc) THEN Panic(t, wc)
         ELSE IF is_stalled(wc) THEN ReturnNone(t, notify_all(pc), wc)
         ELSE Block(t, wc)
    /\ UNCHANGED <<write_state, inserted>>

MutexSyncStream_put(t, value, after) ==
    /\ IF poisoned           \* lock().unwrap()
       THEN /\ pc' = [pc EXCEPT ![t] = "panicked"]
            /\ UNCHANGED <<elements, inserted, poisoned>>
       ELSE IF is_stalled_panics(waiting_count) \/ is_stalled(waiting_count)
       THEN /\ pc' = [pc EXCEPT ![t] = "panicked"]
            /\ poisoned' = TRUE
            /\ UNCHANGED <<elements, inserted>>
       ELSE /\ elements' = Append(elements, value)
            /\ inserted' = inserted (+) SetToBag({value})
            /\ \E p \in notify_one(pc) : pc' = [p EXCEPT ![t] = after]
            /\ UNCHANGED poisoned
    /\ UNCHANGED <<waiting_count, write_state, ret, delivered, nones>>

MutexSyncStream_extend(t, values, after) ==
    /\ IF poisoned           \* lock().unwrap()
       THEN /\ pc' = [pc EXCEPT ![t] = "panicked"]
            /\ UNCHANGED <<elements, inserted, poisoned>>
       ELSE IF is_stalled_panics(waiting_count) \/ is_stalled(waiting_count)
       THEN /\ pc' = [pc EXCEPT ![t] = "panicked"]
            /\ poisoned' = TRUE
            /\ UNCHANGED <<elements, inserted>>
       ELSE /\ elements' = elements \o values
            /\ inserted' = inserted (+) SeqToBag(values)
            /\ pc' = [notify_all(pc) EXCEPT ![t] = after]
            /\ UNCHANGED poisoned
    /\ UNCHANGED <<waiting_count, write_state, ret, delivered, nones>>

(***************************************************************************)
(* SwapSyncStream                                                          *)
(***************************************************************************)
\* drain_extend(target, source): target afterwards (source is left empty).
drain_extend(target, source) == target \o source

SwapSyncStream_get(t) ==
    /\ pc[t] \in {"get", "woken"}
    /\ LET wc == Entered(t) IN
         IF poisoned
         THEN PoisonError(t) /\ UNCHANGED write_state
         ELSE IF Len(elements) > 0
         THEN ReturnSome(t, pc, wc, elements) /\ UNCHANGED write_state
         ELSE IF is_stalled_panics(wc)
         THEN Panic(t, wc) /\ UNCHANGED write_state
         ELSE IF is_stalled(wc)
         THEN IF Len(write_state) = 0
              THEN ReturnNone(t, notify_all(pc), wc) /\ UNCHANGED write_state
              ELSE \* swap, notify_all, continue: the next pass of the loop
                   \* finds the read buffer filled and returns its last item
                   /\ ReturnSome(t, notify_all(pc), wc,
                                 drain_extend(elements, write_state))
                   /\ write_state' = <<>>
         ELSE Block(t, wc) /\ UNCHANGED write_state
    /\ UNCHANGED inserted

SwapSyncStream_put(t, value, after) ==
    /\ write_state' = Append(write_state, value)
    /\ inserted' = inserted (+) SetToBag({value})
    /\ pc' = [pc EXCEPT ![t] = after]
    /\ UNCHANGED <<waiting_count, elements, ret, delivered, nones, poisoned>>

\* (an extend that wakes the consumers)
SwapSyncStream_extend_wake(t, values, after) ==
    /\ write_state' = write_state \o values
    /\ inserted' = inserted (+) SeqToBag(values)
    /\ pc' = [notify_all(pc) EXCEPT ![t] = after]
    /\ UNCHANGED <<waiting_count, elements, ret, delivered, nones, poisoned>>

SwapSyncStream_extend(t, values, after) ==
    /\ write_state' = write_state \o values
    /\ inserted' = inserted (+) SeqToBag(values)
    /\ pc' = [pc EXCEPT ![t] = after]
    /\ UNCHANGED <<waiting_count, elements, ret, delivered, nones, poisoned>>

(***************************************************************************)
(* run_sync_stream_test: every thread puts its items min..max and then     *)
(* gets until None.                                                        *)
(***************************************************************************)
step == ItemCount \div thread_count

RECURSIVE Range(_, _)
Range(lo, hi) == IF lo >= hi THEN <<>> ELSE <<lo>> \o Range(lo + 1, hi)

InitTest ==
    /\ impl \in {"mutex", "swap"}
    /\ waiting_count = 0
    /\ elements = <<>>
    /\ write_state = <<>>
    /\ poisoned = FALSE
    /\ pc = [t \in Spawned(NThreads) |->
                IF ItemCount \div NThreads = 0 THEN "get" ELSE "put"]
    /\ ret = [t \in Threads |-> None]
    /\ todo = [t \in Threads |-> Range(t * step, (t + 1) * step)]
    /\ got = [t \in Threads |-> <<>>]
    /\ cand = [t \in Threads |-> <<>>]
    /\ tree = <<>>
    /\ max_depth = None
    /\ results = <<>>
    /\ joined = 0
    /\ outcome = None
    /\ inserted = EmptyBag
    /\ delivered = EmptyBag
    /\ nones = {}
    /\ scanned = EmptyBag

\* for i in min..max { sync_stream.put(i) }
TestPut(t) ==
    /\ pc[t] = "put"
    /\ LET after == IF Len(todo[t]) = 1 THEN "get" ELSE "put" IN
         IF impl = "mutex" THEN MutexSyncStream_put(t, Head(todo[t]), after)
         ELSE SwapSyncStream_put(t, Head(todo[t]), after)
    /\ todo' = [todo EXCEPT ![t] = Tail(todo[t])]
    /\ UNCHANGED <<impl, got, cand, tree, max_depth, results, joined, outcome,
                   scanned>>

\* the call of get in  while let Some(value) = sync_stream.get()
StreamGet(t) ==
    /\ impl \in {"mutex", "swap"}
    /\ IF impl = "mutex" THEN MutexSyncStream_get(t) ELSE SwapSyncStream_get(t)
    /\ UNCHANGED <<impl, todo, got, cand, tree, max_depth, results, joined,
                   outcome, scanned>>

\* the body of the while loop: results.push(value), or the loop ends
TestLoop(t) ==
    /\ pc[t] = "ret"
    /\ IF ret[t] = None
       THEN /\ pc' = [pc EXCEPT ![t] = "done"]
            /\ got' = got
       ELSE /\ pc' = [pc EXCEPT ![t] = "get"]
            /\ got' = [got EXCEPT ![t] = Append(got[t], ret[t][1])]
    /\ UNCHANGED <<impl, poisoned, waiting_count, elements, write_state,
                   ret, todo, cand,
                   tree, max_depth, results, joined, outcome,
                   inserted, delivered, nones, scanned>>

NextTest ==
    \E t \in Threads :
        \/ TestPut(t)
        \/ StreamGet(t)
        \/ TestLoop(t)
        \/ SpuriousWake(t)

SpecTest == InitTest /\ [][NextTest]_vars

\* The scheduler runs every thread that can take a step of its program; a
\* wait is not bound to return without a notification.
TestStep(t) == TestPut(t) \/ StreamGet(t) \/ TestLoop(t)

FairSpecTest ==
    /\ SpecTest
    /\ \A t \in Spawned(NThreads) : WF_vars(t \in Threads /\ TestStep(t))


(***************************************************************************)
(* A producer that goes on after the end: every thread puts one item and   *)
(* gets until None, as in the test, and then calls put or extend again     *)
(* with items it held back.                                                *)
(***************************************************************************)
\* The number of items a thread holds back for after its loop.
MaxLate == 2

InitMisuse ==
    /\ impl \in {"mutex", "swap"}
    /\ waiting_count = 0
    /\ elements = <<>>
    /\ write_state = <<>>
    /\ poisoned = FALSE
    /\ pc = [t \in Spawned(NThreads) |-> "put"]
    /\ ret = [t \in Threads |-> None]
    /\ todo = [t \in Threads |-> <<t>>]
    /\ got = [t \in Threads |-> <<>>]
    /\ cand = [t \in Threads |->
                  Range(NThreads + t * MaxLate, NThreads + (t + 1) * MaxLate)]
    /\ tree = <<>>
    /\ max_depth = None
    /\ results = <<>>
    /\ joined = 0
    /\ outcome = None
    /\ inserted = EmptyBag
    /\ delivered = EmptyBag
    /\ nones = {}
    /\ scanned = EmptyBag

\* sync_stream.put(value) after the thread's get has returned None
LatePut(t) ==
    /\ pc[t] = "done"
    /\ cand[t] # <<>>
    /\ IF impl = "mutex" THEN MutexSyncStream_put(t, Head(cand[t]), "done")
       ELSE SwapSyncStream_put(t, Head(cand[t]), "done")
    /\ cand' = [cand EXCEPT ![t] = Tail(cand[t])]
    /\ UNCHANGED <<impl, todo, got, tree, max_depth, results, joined, outcome,
                   scanned>>

\* sync_stream.extend(values) after the thread's get has returned None
LateExtend(t) ==
    /\ pc[t] = "done"
    /\ cand[t] # <<>>
    /\ IF impl = "mutex" THEN MutexSyncStream_extend(t, cand[t], "done")
       ELSE SwapSyncStream_extend(t, cand[t], "done")
    /\ cand' = [cand EXCEPT ![t] = <<>>]
    /\ UNCHANGED <<impl, todo, got, tree, max_depth, results, joined, outcome,
                   scanned>>

NextMisuse ==
    \E t \in Threads :
        \/ TestPut(t)
        \/ StreamGet(t)
        \/ TestLoop(t)
        \/ SpuriousWake(t)
        \/ LatePut(t)
        \/ LateExtend(t)

SpecMisuse == InitMisuse /\ [][NextMisuse]_vars

(***************************************************************************)
(* The file system.  A path is the sequence of its components.  A          *)
(* directory has a listing (the entries in the order read_dir yields them) *)
(* and may be unreadable (read_dir fails); an entry has a name, is a       *)
(* directory or not, and its name may fail to decode (to_str is None).     *)
(***************************************************************************)
Root == <<"root">>
DirA == <<"root", "a">>
DirB == <<"root", "b">>
DirC == <<"root", "b", "c">>
Dirs == {Root, DirA, DirB, DirC}

File(n) == [name |-> n, is_dir |-> FALSE, utf8 |-> TRUE]
SubDir(n) == [name |-> n, is_dir |-> TRUE, utf8 |-> TRUE]
Undecodable == [name |-> "?", is_dir |-> FALSE, utf8 |-> FALSE]

SubDirs(d) ==
    IF d = Root THEN <<SubDir("a"), SubDir("b")>>
    ELSE IF d = DirB THEN <<SubDir("c")>>
    ELSE <<>>

\* What a directory holds besides its subdirectories:
\*   "plain"  a file that does not match
\*   "first"  a matching entry listed before the subdirectories
\*   "last"   a matching entry listed after the subdirectories
\*   "two"    two matching entries ("TARGET2" only matches the pattern)
\*   "bad"    an entry whose name does not decode
\*   "closed" nothing, and the directory cannot be opened
Shapes == {"plain", "first", "last", "two", "bad", "closed"}

Listing(d, shape) ==
    IF shape = "first" THEN <<File("TARGET")>> \o SubDirs(d)
    ELSE IF shape = "last"
    THEN <<File("x")>> \o SubDirs(d) \o <<File("TARGET")>>
    ELSE IF shape = "two"
    THEN SubDirs(d) \o <<File("TARGET2"), File("TARGET")>>
    ELSE IF shape = "bad" THEN SubDirs(d) \o <<Undecodable>>
    ELSE <<File("x")>> \o SubDirs(d)

MakeTree(shape) ==
    [d \in Dirs |-> [readable |-> shape[d] # "closed",
                     entries |-> Listing(d, shape[d])]]

\* The trees searched: at most two directories are not "plain", and at most
\* one of them fails ("bad" or "closed").
Marked(shape) == {d \in Dirs : shape[d] # "plain"}
Failing(shape) == {d \in Dirs : shape[d] \in {"bad", "closed"}}

Trees ==
    {MakeTree(shape) : shape \in
        {sh \in [Dirs -> Shapes] :
            Cardinality(Marked(sh)) <= 2 /\ Cardinality(Failing(sh)) <= 1}}

\* Option<usize> values of max_depth tried.
Depths == {None, Some(0), Some(1)}

(***************************************************************************)
(* The matchers.                                                           *)
(***************************************************************************)
\* worker.rs: sentinel_pattern.is_match(file_name); the pattern is the set
\* of names it matches.
sentinel_pattern == {"TARGET", "TARGET2"}

is_match(file_name) == file_name \in sentinel_pattern

\* main.rs: SearchPool.target, and is_target: file_name == self.target.
target == "TARGET"

is_target(path) == VecLast(path) = target

(***************************************************************************)
(* worker.rs                                                               *)
(***************************************************************************)
\* (the cutoff tested with >= for >)
exceeds_depth_ge(depth) ==
    IF max_depth = None THEN FALSE ELSE depth >= max_depth[1]

exceeds_depth(depth) ==
    IF max_depth = None THEN FALSE ELSE depth > max_depth[1]

\* println!("{}", work_item.path): the line printed for a match.
finder_result(work_item) == work_item.path

\* (the for loop without its break: a match is printed and the scan goes on)
RECURSIVE finder_scan_from(_, _, _, _, _)
finder_scan_from(work_item, dir_entries, i, candidate_subpaths, printed) ==
    IF i > Len(dir_entries)
    THEN [found_sentinel |-> printed # <<>>, panicked |-> FALSE,
          printed |-> printed, candidate_subpaths |-> candidate_subpaths]
    ELSE LET dir_entry == dir_entries[i] IN
         IF ~dir_entry.utf8
         THEN [found_sentinel |-> printed # <<>>, panicked |-> TRUE,
               printed |-> printed, candidate_subpaths |-> candidate_subpaths]
         ELSE IF is_match(dir_entry.name)
         THEN finder_scan_from(work_item, dir_entries, i + 1,
                  candidate_subpaths, Append(printed, finder_result(work_item)))
         ELSE IF dir_entry.is_dir /\ ~exceeds_depth(work_item.depth + 1)
         THEN finder_scan_from(work_item, dir_entries, i + 1,
                  Append(candidate_subpaths,
                         [path |-> work_item.path \o <<dir_entry.name>>,
                          depth |-> work_item.depth + 1]), printed)
         ELSE finder_scan_from(work_item, dir_entries, i + 1,
                  candidate_subpaths, printed)

finder_scan_nobreak(work_item, dir_entries, i, candidate_subpaths) ==
    finder_scan_from(work_item, dir_entries, i, candidate_subpaths, <<>>)

\* The for loop of finder_worker over the listing, from entry i on: whether
\* it found the sentinel or panicked, the lines it printed and the
\* candidates it collected.
RECURSIVE finder_scan(_, _, _, _)
finder_scan(work_item, dir_entries, i, candidate_subpaths) ==
    IF i > Len(dir_entries)
    THEN [found_sentinel |-> FALSE, panicked |-> FALSE, printed |-> <<>>,
          candidate_subpaths |-> candidate_subpaths]
    ELSE LET dir_entry == dir_entries[i] IN
         IF ~dir_entry.utf8        \* expect("failed to convert OsStr -> str")
         THEN [found_sentinel |-> FALSE, panicked |-> TRUE, printed |-> <<>>,
               candidate_subpaths |-> candidate_subpaths]
         ELSE IF is_match(dir_entry.name)        \* println, break
         THEN [found_sentinel |-> TRUE, panicked |-> FALSE,
               printed |-> <<finder_result(work_item)>>,
               candidate_subpaths |-> candidate_subpaths]
         ELSE IF dir_entry.is_dir /\ ~exceeds_depth(work_item.depth + 1)
         THEN finder_scan(work_item, dir_entries, i + 1,
                  Append(candidate_subpaths,
                         [path |-> work_item.path \o <<dir_entry.name>>,
                          depth |-> work_item.depth + 1]))
         ELSE finder_scan(work_item, dir_entries, i + 1, candidate_subpaths)

\* (children enqueued whether or not the sentinel was found)
enqueues_children_always(found_sentinel) == TRUE

\* if !found_sentinel { extend(candidate_subpaths) }  (worker.rs and main.rs)
enqueues_children(found_sentinel) == ~found_sentinel

Running == outcome = None

\* One pass of  while let Some(work_item) = target.sync_stream.get()  from
\* the return of get to the call of extend or the next get.
finder_worker(t) ==
    /\ Running
    /\ impl \in {"mutex", "swap"}
    /\ pc[t] = "ret"
    /\ IF ret[t] = None
       THEN /\ pc' = [pc EXCEPT ![t] = "done"]
            /\ UNCHANGED <<cand, results, scanned>>
       ELSE LET work_item == ret[t][1]
                dir == tree[work_item.path]
                scan == finder_scan(work_item, dir.entries, 1, <<>>)
            IN  /\ scanned' = scanned (+) SetToBag({work_item})
                /\ IF ~dir.readable        \* Err(_) => continue
                   THEN /\ pc' = [pc EXCEPT ![t] = "get"]
                        /\ UNCHANGED <<cand, results>>
                   ELSE IF scan.panicked
                   THEN /\ pc' = [pc EXCEPT ![t] = "panicked"]
                        /\ UNCHANGED <<cand, results>>
                   ELSE /\ results' = results \o scan.printed
                        /\ IF enqueues_children(scan.found_sentinel)
                           THEN /\ cand' = [cand EXCEPT ![t] =
                                               scan.candidate_subpaths]
                                /\ pc' = [pc EXCEPT ![t] = "extend"]
                           ELSE /\ pc' = [pc EXCEPT ![t] = "get"]
                                /\ UNCHANGED cand
    /\ UNCHANGED <<impl, poisoned, waiting_count, elements, write_state,
                   ret, todo, got,
                   tree, max_depth, joined, outcome, inserted, delivered, nones>>

\* target.sync_stream.extend(candidate_subpaths)
finder_extend(t) ==
    /\ Running
    /\ impl \in {"mutex", "swap"}
    /\ pc[t] = "extend"
    /\ IF impl = "mutex" THEN MutexSyncStream_extend(t, cand[t], "get")
       ELSE SwapSyncStream_extend(t, cand[t], "get")
    /\ cand' = [cand EXCEPT ![t] = <<>>]
    /\ UNCHANGED <<impl, todo, got, tree, max_depth, results, joined, outcome,
                   scanned>>

\* target.sync_stream.get()
finder_get(t) ==
    /\ Running
    /\ StreamGet(t)

(***************************************************************************)
(* main.rs: SearchPool                                                     *)
(***************************************************************************)
num_cpus == Cardinality(Threads)

get_candidate(t) ==
    /\ Running
    /\ impl = "pool"
    /\ pc[t] \in {"get", "woken"}
    /\ LET wc == Entered(t) IN
         IF wc < num_cpus /\ Len(elements) = 0 THEN Block(t, wc)
         ELSE IF Len(elements) > 0 THEN ReturnSome(t, pc, wc, elements)
         ELSE \E p \in notify_one(pc) : ReturnNone(t, p, wc)
    /\ UNCHANGED <<impl, write_state, todo, got, cand, tree, max_depth,
                   results, joined, outcome, inserted, scanned>>

extend_candidates(t, paths, after) ==
    /\ elements' = elements \o paths
    /\ inserted' = inserted (+) SeqToBag(paths)
    /\ pc' = [notify_all(pc) EXCEPT ![t] = after]
    /\ UNCHANGED <<waiting_count, write_state, ret, delivered, nones,
                   poisoned>>

\* The for loop of worker over sub_paths, from entry i on.
RECURSIVE worker_scan(_, _, _, _)
worker_scan(path, dir_entries, i, candidate_sub_paths) ==
    IF i > Len(dir_entries)
    THEN [found_sentinel |-> FALSE, failed |-> FALSE, result |-> None,
          candidate_sub_paths |-> candidate_sub_paths]
    ELSE LET dir_entry == dir_entries[i]
             sub_path == path \o <<dir_entry.name>>
         IN
         IF ~dir_entry.utf8        \* is_target(&sub_path)? is Err
         THEN [found_sentinel |-> FALSE, failed |-> TRUE, result |-> None,
               candidate_sub_paths |-> candidate_sub_paths]
         ELSE IF is_target(sub_path)
         THEN [found_sentinel |-> TRUE, failed |-> FALSE,
               result |-> Some(sub_path),     \* put_result(sub_path)
               candidate_sub_paths |-> candidate_sub_paths]
         ELSE IF dir_entry.is_dir
         THEN worker_scan(path, dir_entries, i + 1,
                          Append(candidate_sub_paths, sub_path))
         ELSE worker_scan(path, dir_entries, i + 1, candidate_sub_paths)

\* One pass of  while let Some(path) = pool.get_candidate()  from the return
\* of get_candidate to the call of extend_candidates or the next
\* get_candidate.  An Err leaves worker, and the thread's unwrap panics.
worker(t) ==
    /\ Running
    /\ impl = "pool"
    /\ pc[t] = "ret"
    /\ IF ret[t] = None
       THEN /\ pc' = [pc EXCEPT ![t] = "done"]
            /\ UNCHANGED <<cand, results, scanned>>
       ELSE LET path == ret[t][1]
                dir == tree[path]
                scan == worker_scan(path, dir.entries, 1, <<>>)
            IN  /\ scanned' = scanned (+) SetToBag({path})
                /\ IF ~dir.readable \/ scan.failed     \* read_dir()? / is_target()?
                   THEN /\ pc' = [pc EXCEPT ![t] = "panicked"]
                        /\ UNCHANGED <<cand, results>>
                   ELSE /\ results' = results \o scan.result
                        /\ IF enqueues_children(scan.found_sentinel)
                           THEN /\ cand' = [cand EXCEPT ![t] =
                                               scan.candidate_sub_paths]
                                /\ pc' = [pc EXCEPT ![t] = "extend"]
                           ELSE /\ pc' = [pc EXCEPT ![t] = "get"]
                                /\ UNCHANGED cand
    /\ UNCHANGED <<impl, poisoned, waiting_count, elements, write_state,
                   ret, todo, got,
                   tree, max_depth, joined, outcome, inserted, delivered, nones>>

\* pool.extend_candidates(candidate_sub_paths)
worker_extend(t) ==
    /\ Running
    /\ impl = "pool"
    /\ pc[t] = "extend"
    /\ extend_candidates(t, cand[t], "get")
    /\ cand' = [cand EXCEPT ![t] = <<>>]
    /\ UNCHANGED <<impl, todo, got, tree, max_depth, results, joined, outcome,
                   scanned>>

\* find_sentinel_dirs: child.join() of the next child, in spawn order.  A
\* panicked child makes it return Err; after the last child it returns
\* Ok(results).
join ==
    /\ Running
    /\ impl = "pool"
    /\ joined < num_cpus
    /\ pc[joined] \in {"done", "panicked"}
    /\ joined' = joined + 1
    /\ outcome' = IF pc[joined] = "panicked" THEN Some([ok |-> FALSE, dirs |-> <<>>])
                  ELSE IF joined + 1 = num_cpus
                  THEN Some([ok |-> TRUE, dirs |-> results])
                  ELSE None
    /\ UNCHANGED <<impl, poisoned, waiting_count, elements, write_state,
                   pc, ret, todo,
                   got, cand, tree, max_depth, results,
                   inserted, delivered, nones, scanned>>

\* A wait that returns without a notification, while the process runs.
spurious(t) == Running /\ SpuriousWake(t)

(***************************************************************************)
(* The search: the queue is seeded with the root at depth 0 and            *)
(* thread_count workers are started.                                       *)
(***************************************************************************)
RootItem == [path |-> Root, depth |-> 0]

\* The search over one of the trees and depths given, with n workers.
InitSearchWith(n, trees, depths) ==
    /\ impl \in {"mutex", "swap", "pool"}
    /\ tree \in trees
    /\ max_depth \in (IF impl = "pool" THEN {None} ELSE depths)
    /\ pc = [t \in Spawned(n) |-> "get"]
    /\ waiting_count = 0
    /\ elements = IF impl = "mutex" THEN <<RootItem>>
                  ELSE IF impl = "pool" THEN <<Root>> ELSE <<>>
    /\ write_state = IF impl = "swap" THEN <<RootItem>> ELSE <<>>
    /\ poisoned = FALSE
    /\ inserted = SetToBag({IF impl = "pool" THEN Root ELSE RootItem})
    /\ ret = [t \in Threads |-> None]
    /\ todo = [t \in Threads |-> <<>>]
    /\ got = [t \in Threads |-> <<>>]
    /\ cand = [t \in Threads |-> <<>>]
    /\ results = <<>>
    /\ joined = 0
    /\ outcome = None
    /\ delivered = EmptyBag
    /\ nones = {}
    /\ scanned = EmptyBag

InitSearch == InitSearchWith(NThreads, Trees, Depths)

Next ==
    \/ \E t \in Threads :
        \/ finder_get(t)
        \/ finder_worker(t)
        \/ finder_extend(t)
        \/ get_candidate(t)
        \/ worker(t)
        \/ worker_extend(t)
        \/ spurious(t)
    \/ join

Spec == InitSearch /\ [][Next]_vars


\* The scheduler runs every worker that can take a step of its program, and
\* the orchestrator when the child it joins has finished; a wait is not
\* bound to return without a notification.
WorkerStep(t) ==
    \/ finder_get(t)
    \/ finder_worker(t)
    \/ finder_extend(t)
    \/ get_candidate(t)
    \/ worker(t)
    \/ worker_extend(t)

FairSpec ==
    /\ Spec
    /\ WF_vars(join)
    /\ \A t \in Spawned(NThreads) : WF_vars(t \in Threads /\ WorkerStep(t))

(***************************************************************************)
(* Properties                                                              *)
(***************************************************************************)
AllDone == \A t \in Threads : pc[t] = "done"
Crashed == \E t \in Threads : pc[t] = "panicked"
InsideGet(t) == pc[t] \in {"wait", "woken"}

\* run_sync_stream_test: the items put, and seen_counts of an item.
TestItems == 0 .. (step * thread_count - 1)

Occurrences(x, v) == Cardinality({i \in 1 .. Len(v) : v[i] = x})

RECURSIVE SeenIn(_, _)
SeenIn(x, ts) ==
    IF ts = {} THEN 0
    ELSE LET t == CHOOSE u \in ts : TRUE
         IN  Occurrences(x, got[t]) + SeenIn(x, ts \ {t})

seen_counts(x) == SeenIn(x, Threads)

\* C1: exactly-once delivery in run_sync_stream_test, for MutexSyncStream
\* and SwapSyncStream: no item is returned by two get calls, no thread
\* panics, and once every thread has received None the items returned are
\* exactly the items put, each seen once in the threads' results.
C1_ExactlyOnce ==
    /\ \A x \in TestItems : CopiesIn(x, delivered) <= 1 /\ seen_counts(x) <= 1
    /\ ~Crashed
    /\ nones = Threads =>
           /\ delivered = inserted
           /\ BagToSet(inserted) = TestItems
    /\ AllDone => \A x \in TestItems : seen_counts(x) = 1

\* Every thread has ended its loop, over the swap stream, and thread 0 holds
\* an item that another thread put.
C1_Witness ==
    /\ AllDone
    /\ impl = "swap"
    /\ \E i \in 1 .. Len(got[0]) : got[0][i] >= step
    /\ \A x \in TestItems : seen_counts(x) = 1

\* C2: stall detection is sound: in the step in which a get returns None,
\* the read buffer and the write buffer are empty and every other worker is
\* inside get (blocked or woken) or has itself received None before; none
\* is scanning, extending or about to call get.  When the first None is
\* returned, every other worker is inside get.
C2_StallSound ==
    [][\A t \in Threads :
          (t \notin nones /\ t \in nones') =>
              /\ elements = <<>> /\ write_state = <<>>
              /\ elements' = <<>> /\ write_state' = <<>>
              /\ \A u \in Threads \ {t} : InsideGet(u) \/ u \in nones
              /\ nones = {} => \A u \in Threads \ {t} : InsideGet(u)]_vars

\* A get has returned None while another worker is still inside get, after a
\* search that delivered more than the root.
C2_Witness ==
    /\ nones # {}
    /\ \E u \in Threads : InsideGet(u)
    /\ BagCardinality(delivered) >= 2

\* C3: once a get has returned None, every worker's get returns None.
C3_AllObserveTermination == (nones # {}) ~> (nones = Threads)

\* Every worker has received None and ended its loop, over the SearchPool,
\* after a search that delivered more than the root.
C3_Witness ==
    /\ nones = Threads
    /\ AllDone
    /\ impl = "pool"
    /\ BagCardinality(delivered) >= 2

\* C4: while every worker runs its loop (none has panicked), every item
\* handed to put / extend is eventually returned by a get, and never by two:
\* the items delivered catch up with the items inserted, and no item is
\* delivered more often than inserted.
C4_EventualDelivery ==
    /\ [](\A x \in BagToSet(delivered) :
             CopiesIn(x, delivered) <= CopiesIn(x, inserted))
    /\ (inserted # delivered) ~> (inserted = delivered \/ Crashed)

\* Items extended while another worker was inside get have all been
\* delivered: three or more items, over the swap stream.
C4_Witness ==
    /\ impl = "swap"
    /\ inserted = delivered
    /\ BagCardinality(delivered) >= 3
    /\ AllDone


(***************************************************************************)
(* The tree as the claims speak of it.                                     *)
(***************************************************************************)
\* The name matches the sentinel of the program that runs.
Matches(name) == IF impl = "pool" THEN name = target ELSE is_match(name)

MatchingEntries(d) ==
    {i \in 1 .. Len(tree[d].entries) :
        tree[d].entries[i].utf8 /\ Matches(tree[d].entries[i].name)}

HasMatch(d) == MatchingEntries(d) # {}

NoSentinel == \A d \in Dirs : ~HasMatch(d)

\* Every directory can be opened and every name decodes.
Healthy ==
    \A d \in Dirs :
        /\ tree[d].readable
        /\ \A i \in 1 .. Len(tree[d].entries) : tree[d].entries[i].utf8

ProperAncestors(p) == {SubSeq(p, 1, k) : k \in 1 .. (Len(p) - 1)}

DepthOf(p) == Len(p) - 1

WithinDepth(p) == max_depth = None \/ DepthOf(p) <= max_depth[1]

ItemPath(x) == IF impl = "pool" THEN x ELSE x.path

ResultSet == {results[i] : i \in 1 .. Len(results)}

\* The directories that hold a match, below no directory that holds one,
\* within the maximum depth.
Expected ==
    {d \in Dirs :
        /\ HasMatch(d)
        /\ \A a \in ProperAncestors(d) : ~HasMatch(a)
        /\ WithinDepth(d)}

\* find_sentinel_dirs has returned Ok / the workers of finder_worker have
\* all left their loop.
Completed ==
    /\ AllDone
    /\ impl = "pool" => (outcome # None /\ outcome[1].ok)

\* C5: on a tree in which no entry matches the sentinel the search
\* completes: every worker leaves its loop, the join returns, and the result
\* is empty.
C5_SearchTerminates ==
    NoSentinel =>
        <>(/\ Completed
           /\ results = <<>>
           /\ impl = "pool" => outcome[1].dirs = <<>>)

\* C6: when all workers have exited, the results are exactly the directories
\* that directly hold a matching entry, have no proper ancestor that holds
\* one, and lie within the maximum depth (on a tree whose directories all
\* open and whose names all decode).
C6_ResultsComplete == (AllDone /\ Healthy) => ResultSet = Expected

\* C7: a step that records a result records the path of the work item the
\* worker holds (the directory that contains the match), not the path of the
\* matching entry.
C7_RecordsContainingDir ==
    [][results' # results =>
          \E t \in Threads :
              /\ pc[t] = "ret" /\ ret[t] # None
              /\ results' = Append(results, ItemPath(ret[t][1]))]_vars

\* C8: no descendant of a directory that holds a matching entry is ever put
\* on the queue or scanned.
C8_PrunedBelowSentinel ==
    \A x \in BagToSet(inserted) \cup BagToSet(scanned) :
        \A a \in ProperAncestors(ItemPath(x)) : ~HasMatch(a)

\* The root lists its subdirectories before its matching entry, has been
\* scanned and reported, and the search has ended with nothing but the root
\* ever enqueued.
C8_Witness ==
    /\ AllDone
    /\ HasMatch(Root)
    /\ tree[Root].entries[2].is_dir
    /\ BagToSet(scanned) = {IF impl = "pool" THEN Root ELSE RootItem}
    /\ BagCardinality(inserted) = 1
    /\ Len(results) = 1

\* The directory a result was recorded for.
ResultDir(r) == IF impl = "pool" THEN VecPopped(r) ELSE r

\* C9: no directory is reported twice: the results hold no duplicate, and at
\* most one of them was recorded for any one directory.
C9_SingleMatchPerDir ==
    /\ \A i, j \in 1 .. Len(results) : results[i] = results[j] => i = j
    /\ \A d \in Dirs :
           Cardinality({i \in 1 .. Len(results) : ResultDir(results[i]) = d}) <= 1

\* A directory with two matching entries has been reported, by finder_worker,
\* and the search has ended.
C9_Witness ==
    /\ AllDone
    /\ impl = "mutex"
    /\ \E d \in Dirs : Cardinality(MatchingEntries(d)) = 2 /\ d \in ResultSet

\* The directories finder_worker reaches: within the maximum depth, below
\* directories that open and hold no match.
Reachable ==
    {d \in Dirs :
        /\ WithinDepth(d)
        /\ \A a \in ProperAncestors(d) : tree[a].readable /\ ~HasMatch(a)}

\* C10: depth cutoff of finder_worker.  With max_depth = Some(k) every item
\* enqueued has depth <= k (its depth being that of its path) and no result
\* lies deeper than k; when the workers have exited, the directories
\* enqueued and scanned are exactly the reachable ones within depth k: the
\* root also for k = 0, the subdirectories at depth k of a directory at depth
\* k - 1, none below depth k, and all of them with max_depth = None.
C10_DepthCutoff ==
    impl # "pool" =>
        /\ \A x \in BagToSet(inserted) :
               x.depth = DepthOf(x.path) /\ WithinDepth(x.path)
        /\ \A r \in ResultSet : WithinDepth(r)
        /\ AllDone =>
               /\ {x.path : x \in BagToSet(inserted)} = Reachable
               /\ {x.path : x \in BagToSet(scanned)} = Reachable

\* With max_depth = Some(1) and nothing but plain directories the search has
\* ended with root/b enqueued at depth 1 and root/b/c never enqueued.
C10_Witness ==
    /\ AllDone
    /\ impl = "swap"
    /\ max_depth = Some(1)
    /\ NoSentinel /\ Healthy
    /\ [path |-> DirB, depth |-> 1] \in BagToSet(inserted)
    /\ \A x \in BagToSet(inserted) : x.path # DirC

\* The same search with one worker more, so that two workers can be blocked
\* while a third detects the stall, on the trees with at most one sentinel.
BroadcastThreads == NThreads + 1

BroadcastTrees ==
    {MakeTree(shape) : shape \in
        {sh \in [Dirs -> {"plain", "last"}] : Cardinality(Marked(sh)) <= 1}}

InitBroadcast == InitSearchWith(BroadcastThreads, BroadcastTrees, {None})

SpecBroadcast == InitBroadcast /\ [][Next]_vars

(***************************************************************************)
(* C11 .. C20                                                              *)
(***************************************************************************)
\* The items of a bag stand for different directories, one copy of each.
OneOfEach(b) ==
    /\ \A x \in BagToSet(b) : CopiesIn(x, b) = 1
    /\ \A x, y \in BagToSet(b) : ItemPath(x) = ItemPath(y) => x = y

\* C11: no directory is enqueued twice and none is scanned twice, by the same
\* worker or by two workers; and when the workers have all left their loop
\* every directory reachable from the root has been scanned (once).
C11_ScannedOnce ==
    /\ OneOfEach(inserted)
    /\ OneOfEach(scanned)
    /\ AllDone => {ItemPath(x) : x \in BagToSet(scanned)} = Reachable

\* The search has ended with all four directories of the tree enqueued and
\* scanned.
C11_Witness ==
    /\ AllDone
    /\ BagToSet(scanned) = BagToSet(inserted)
    /\ {ItemPath(x) : x \in BagToSet(scanned)} = Dirs

\* C12: put and extend called after the queue has been declared finished
\* panic and add nothing to a buffer, in both forms of the stream.
C12_LatePutPanics ==
    [][\A t \in Threads :
          (pc[t] = "done" /\ cand'[t] # cand[t]) =>
              /\ pc'[t] = "panicked"
              /\ elements' = elements
              /\ write_state' = write_state]_vars

\* Thread t is about to scan the directory its get returned.
Scans(t, d) == pc[t] = "ret" /\ ret[t] # None /\ ItemPath(ret[t][1]) = d

HasUndecodable(d) ==
    \E i \in 1 .. Len(tree[d].entries) : ~tree[d].entries[i].utf8

\* C13: when a worker of find_sentinel_dirs has panicked, the join phase
\* eventually completes and returns an error.
C13_PanicReported ==
    (impl = "pool" /\ Crashed) ~> (outcome # None /\ ~outcome[1].ok)

\* C14: the scan of a directory that cannot be opened records no result,
\* enqueues nothing, and leaves the worker at its next get.
C14_UnopenableSkipped ==
    [][\A t \in Threads : \A d \in Dirs :
          (Scans(t, d) /\ ~tree[d].readable /\ pc'[t] # pc[t]) =>
              /\ pc'[t] = "get"
              /\ results' = results
              /\ inserted' = inserted]_vars

\* C15: the scan of a directory that holds an entry whose name cannot be
\* decoded does not end the worker.
C15_UndecodableSkipped ==
    [][\A t \in Threads : \A d \in Dirs :
          (Scans(t, d) /\ tree[d].readable /\ HasUndecodable(d)
                       /\ ~HasMatch(d) /\ pc'[t] # pc[t]) =>
              pc'[t] \in {"get", "extend"}]_vars

\* The workers counted as waiting: those inside get and those whose get has
\* returned None.
Counted == {t \in Threads : InsideGet(t) \/ t \in nones}

\* C16: waiting_count never exceeds thread_count: it is the number of
\* workers inside get or back from get with None, and the panic of
\* is_stalled is never taken (no lock is ever poisoned).
C16_WaitingBounded ==
    /\ waiting_count <= thread_count
    /\ waiting_count = Cardinality(Counted)
    /\ ~poisoned

\* Every worker has received None and none of them was taken off the count.
C16_Witness ==
    /\ nones = Threads
    /\ waiting_count = thread_count
    /\ impl \in {"mutex", "swap"}

\* C17: the get that detects the stall and returns None wakes, in that
\* call, every worker blocked on the condition variable.
C17_BroadcastOnStall ==
    [][\A t \in Threads :
          (pc[t] \in {"get", "woken"} /\ pc'[t] = "ret" /\ ret'[t] = None) =>
              \A u \in Threads \ {t} : pc[u] = "wait" => pc'[u] = "woken"]_vars

\* C18: a worker of finder_worker that is about to call extend never finds
\* the MutexSyncStream stalled, whatever it extends by.
C18_ExtendNeverStalled ==
    \A t \in Threads :
        (impl = "mutex" /\ pc[t] = "extend") =>
            /\ ~is_stalled(waiting_count)
            /\ ~is_stalled_panics(waiting_count)
            /\ ~poisoned

\* A worker is about to extend by an empty list while every other worker
\* is blocked in get.
C18_Witness ==
    /\ impl = "mutex"
    /\ \E t \in Threads :
           /\ pc[t] = "extend"
           /\ cand[t] = <<>>
           /\ \A u \in Threads \ {t} : pc[u] = "wait"
           /\ waiting_count = thread_count - 1

\* C19: once a get has returned None, waiting_count stays >= thread_count,
\* the buffers stay empty, and no get returns an item any more.
C19_StallPermanent ==
    [][/\ nones' # {} =>
             /\ waiting_count' >= thread_count
             /\ elements' = <<>>
             /\ write_state' = <<>>
       /\ nones # {} =>
             /\ delivered' = delivered
             /\ inserted' = inserted
             /\ nones \subseteq nones'
             /\ \A t \in Threads : (pc'[t] = "ret" /\ pc[t] # "ret") =>
                                       ret'[t] = None]_vars

\* A second worker comes back from get with None after the first has
\* already left its loop.
C19_Witness ==
    /\ nones = Threads
    /\ \E t, u \in Threads : pc[t] = "done" /\ pc[u] = "ret" /\ ret[u] = None

\* C20: in the swap form extend only appends to the write buffer: it leaves
\* the read buffer, waiting_count and every other thread as they are.  The
\* read buffer is filled only by the swap, which empties the write buffer, is
\* done by a get that finds the read buffer empty with every other worker
\* inside get, and returns the last item moved at once.
C20_SwapHandOff ==
    [][impl = "swap" =>
          /\ \A t \in Threads :
                 (pc[t] = "extend" /\ pc'[t] # pc[t]) =>
                     /\ write_state' = write_state \o cand[t]
                     /\ elements' = elements
                     /\ waiting_count' = waiting_count
                     /\ \A u \in Threads \ {t} : pc'[u] = pc[u]
          /\ (\A t \in Threads : pc[t] = "extend" => pc'[t] = pc[t]) =>
                 \/ write_state' = write_state /\ Len(elements') <= Len(elements)
                 \/ /\ write_state # <<>> /\ write_state' = <<>>
                    /\ elements = <<>>
                    /\ elements' = VecPopped(write_state)
                    /\ \E t \in Threads :
                           /\ pc[t] \in {"get", "woken"}
                           /\ Entered(t) >= thread_count
                           /\ \A u \in Threads \ {t} : InsideGet(u)
                           /\ pc'[t] = "ret"
                           /\ ret'[t] = Some(VecLast(write_state))]_vars

\* A worker has just swapped the children put by extend into the read
\* buffer and holds one of them, the other worker having been woken by it.
C20_Witness ==
    /\ impl = "swap"
    /\ write_state = <<>>
    /\ elements # <<>>
    /\ \E t, u \in Threads :
           /\ pc[t] = "ret" /\ ret[t] # None /\ ret[t][1].depth = 1
           /\ pc[u] = "woken"

====
